---- MODULE Spec2Model ----
(***************************************************************************)
(* A model of the device layer of the TADEK UI client:                     *)
(*   devices.py   Queue, DeviceObject, DevicesDialog                       *)
(*   view.py      View (reqIds, _deviceResponseReceived)                   *)
(*   explore/     Explore (tabs), DeviceTab (request handlers)             *)
(*   dialogs.py   ProgressDialog, modal message boxes                      *)
(*   utils.py     setWait / resetWait                                      *)
(*                                                                         *)
(* Two threads take steps: the network-receive thread (Put, ErrorArrives)  *)
(* and the GUI thread (every other action).  A Qt signal connected         *)
(* directly runs its slots inside the emitting call, so one action holds   *)
(* the whole chain of slots; the one queued connection (devices.py:101)    *)
(* posts an event that a later Dispatch step delivers.  A modal message    *)
(* box suspends the handler that opened it and runs a nested event loop:   *)
(* the handler's remainder is a frame on `modal`, resumed by ModalClose.   *)
(***************************************************************************)
EXTENDS Integers, Sequences, FiniteSets, TLC

\* The device objects the program may hold, and the names the operator may
\* give them; NoName marks an object that is not in the registry
\* (devices.all()).
Devs == {"d1", "d2"}
Names == {"a", "b"}
NoName == "none"

\* Bounds of the model.
MaxTests == 2
MaxSearches == 2
MaxValues == 3
MaxStored == 3
MaxItems == 4
MaxChars == 2
MaxStates == 2
MaxId == 2
MaxQueue == 2
MaxEvents == 2
MaxModal == 1
MaxCount == 1
MaxWait == 1

\* protocol.DEFAULT_MSG_ID and protocol.ERROR_MSG_ID (tadek.connection).
DEFAULT_MSG_ID == 0
ERROR_MSG_ID == -1
\* Python's None where an id is expected.
None == -2

Ids == 1..MaxId
Handlers == {"none", "RefreshAll", "Add", "Refresh", "Find", "Fill"}

VARIABLES
    registry,      \* tadek.core.devices: the name of each configured device
    modalCap,      \* how deep message boxes may nest in this run
    connected,     \* DeviceObject._connected, per device
    clientUp,      \* the client's connection is open (tadek.connection)
    clientErr,     \* client.error(): "none", "lost" (ConnectionLostError), "other"
    nextId,        \* last message id the client of a device gave out
    messages,      \* client.messages: ids put and not yet fetched, per device
    events,        \* posted notEmpty events awaiting the GUI event loop
    modal,         \* suspended handlers, innermost message box last
    tabs,          \* Explore._tabs with DeviceTab._active: "none", "active", "inactive"
    tabOrder,      \* tabs in the order they were added to the tab widget
    reqMap,        \* DeviceTab._reqMap: id -> handler, per device tab
    progressMap,   \* DeviceTab._progressMap: id -> progress message id, per tab
    reqIds,        \* View.reqIds of the Explore view
    errors,        \* DevicesDialog._errors (its keys)
    progressId,    \* ProgressDialog._id
    progressDict,  \* ProgressDialog._dict (its keys)
    progressVisible, \* the progress dialog is shown
    search,        \* the search of a DeviceTab with the buttons of the search dialog
    wait,          \* utils._widgets[view][1]; 0 when the view is not in _widgets
    emitted,       \* history: signals, log entries and calls of the last step
    lastOp,        \* history: the operation of the last step
    fetchCount,    \* history: calls of getResponse that gave a response, per id
    dropped,       \* history: ids pending when the device was last disconnected
    lostConn,      \* history: the last disconnect followed a ConnectionLostError
    helper,        \* test/progresschannel.py: ProgressChannelHelper and its two threads
    lv,            \* utils.py: a LastValues list with its configuration store
    tree,          \* test/tests.py: the tests tree with its check boxes
    check          \* explore/search.py: a Check object and the last item it was given

prog == <<registry, connected, clientUp, clientErr, nextId, messages, events, modal, tabs,
          tabOrder, reqMap, progressMap, reqIds, errors, progressId, progressDict,
          progressVisible, search, wait>>
\* The variables of the device layer, and all variables.
devVars == <<registry, modalCap, connected, clientUp, clientErr, nextId, messages, events, modal, tabs,
             tabOrder, reqMap, progressMap, reqIds, errors, progressId, progressDict,
             progressVisible, search, wait, emitted, lastOp, fetchCount, dropped, lostConn>>
\* The variables of the parts that stand for themselves.
pureVars == <<lv, tree, check>>
vars == <<devVars, helper, pureVars>>

\* The program state as one record: the operators below are the program's
\* functions, taking the state before a call to the state after it.  `ret` is
\* the value the last call returned, `raised` is set when an exception left it.
Cur ==
    [registry |-> registry, connected |-> connected, clientUp |-> clientUp, clientErr |-> clientErr,
     nextId |-> nextId, messages |-> messages, events |-> events, modal |-> modal,
     tabs |-> tabs, tabOrder |-> tabOrder, reqMap |-> reqMap,
     progressMap |-> progressMap, reqIds |-> reqIds, errors |-> errors,
     progressId |-> progressId, progressDict |-> progressDict,
     visible |-> progressVisible, search |-> search, wait |-> wait,
     emitted |-> <<>>, ret |-> None, raised |-> FALSE]

\* What the environment decides during one step: whether the client can send
\* (the request function does not raise), the status of a processed response
\* and the number of children of its accessible.
Choices == [ok : BOOLEAN, status : BOOLEAN, count : 0..MaxCount]

Sig(sig, d, id, error) == [sig |-> sig, dev |-> d, id |-> id, error |-> error]

Emit(s, sig, d, id) == [s EXCEPT !.emitted = Append(@, Sig(sig, d, id, FALSE))]

RemoveFirst(q, x) ==
    IF \E i \in 1..Len(q) : q[i] = x
    THEN LET i == CHOOSE i \in 1..Len(q) : q[i] = x /\ \A j \in 1..(i-1) : q[j] # x
         IN  SubSeq(q, 1, i-1) \o SubSeq(q, i+1, Len(q))
    ELSE q

Count(q, P(_)) == Cardinality({i \in 1..Len(q) : P(q[i])})

\* How often the last step emitted a signal (wrote a log entry, made a call).
NumSig(sig) == Count(emitted, LAMBDA e : e.sig = sig)
NumSigId(sig, d, id) == Count(emitted, LAMBDA e : e.sig = sig /\ e.dev = d /\ e.id = id)


(***************************************************************************)
(* utils.py: LastValues                                                    *)
(***************************************************************************)

\* The values the operator enters.
Values == {"v1", "v2", "v3"}

NoDuplicates(q) == \A i \in 1..Len(q) : \A j \in 1..Len(q) : q[i] = q[j] => i = j

\* LastValues.__init__: the list of the configuration, cut to max values
\* and then written back; stored is what config.getList gives, store what
\* the configuration holds for the option.  started tells whether the list
\* started without duplicates, op and arg are the last call.
LastValues_init(stored, max) ==
    LET values == IF Len(stored) > max THEN SubSeq(stored, 1, max) ELSE stored
    IN  [values |-> values, store |-> values, max |-> max,
         started |-> NoDuplicates(values), op |-> "init", arg |-> "none"]

\* add without the removal of the value the list holds already: the variant
\* C28 tells from the code.
LastValues_addKeep(l, value) ==
    LET v1 == <<value>> \o l.values
        v2 == IF Len(v1) > l.max THEN SubSeq(v1, 1, Len(v1) - 1) ELSE v1
    IN  [l EXCEPT !.values = v2, !.store = v2, !.op = "add", !.arg = value]

\* LastValues.add, with its config.set.
LastValues_add(l, value) ==
    LET v1 == <<value>> \o RemoveFirst(l.values, value)
        v2 == IF Len(v1) > l.max THEN SubSeq(v1, 1, Len(v1) - 1) ELSE v1
    IN  [l EXCEPT !.values = v2, !.store = v2, !.op = "add", !.arg = value]

\* LastValues.clear, with its config.set.
LastValues_clear(l) ==
    [l EXCEPT !.values = <<>>, !.store = <<>>, !.op = "clear", !.arg = "none"]

(***************************************************************************)
(* test/tests.py: the check boxes of the tests tree                        *)
(***************************************************************************)

\* The items of the tests tree; item 0 stands for no item.
Items == 1..MaxItems

\* Tests.refresh: the tree is built with every item Unchecked and no
\* current item.  parent gives the parent of an item, 0 for a top-level
\* item; toggled is the item the operator toggled last.
Tests_refresh(parent) ==
    [parent |-> parent, state |-> [i \in Items |-> "Unchecked"],
     current |-> 0, toggled |-> 0]

children(t, item) == {i \in Items : t.parent[i] = item}

\* The ancestors of an item, by item.parent().
RECURSIVE ancestors(_, _)
ancestors(t, item) ==
    IF t.parent[item] = 0 THEN {} ELSE {t.parent[item]} \cup ancestors(t, t.parent[item])

\* updateChildren of _updateCheckboxes: the item and, one child after the
\* other, the items below it get the state.
RECURSIVE updateChildren(_, _, _)
RECURSIVE updateEach(_, _, _)
updateEach(t, items, state) ==
    IF items = {}
    THEN t
    ELSE LET i == CHOOSE x \in items : \A y \in items : x <= y
         IN  updateEach(updateChildren(t, i, state), items \ {i}, state)

updateChildren(t, item, state) ==
    updateEach([t EXCEPT !.state[item] = state], children(t, item), state)

\* The state _updateCheckboxes gives a parent for the states of its
\* children.
parentState(t, parent) ==
    LET states == {t.state[i] : i \in children(t, parent)}
    IN  IF states \subseteq {"Checked"} THEN "Checked"
        ELSE IF states \subseteq {"Unchecked"} THEN "Unchecked"
        ELSE "PartiallyChecked"

\* The loop of _updateCheckboxes over the parents left after the first:
\* the variant C29 tells from the code.
updateParentsOnce(t, parent) ==
    IF parent = 0
    THEN t
    ELSE [t EXCEPT !.state[parent] = parentState(t, parent)]

\* The loop of _updateCheckboxes over the parents of the item.
RECURSIVE updateParents(_, _)
updateParents(t, parent) ==
    IF parent = 0
    THEN t
    ELSE updateParents([t EXCEPT !.state[parent] = parentState(t, parent)],
                       t.parent[parent])

\* Tests._updateCheckboxes, the slot of itemChanged: an item that is not the
\* current one (its state was set by this slot or by refresh) is left alone.
Tests_updateCheckboxes(t, item) ==
    IF item # t.current
    THEN t
    ELSE updateParents(updateChildren(t, item, t.state[item]), t.parent[item])

\* The operator clicks the check box of an item: the view makes the item
\* the current one and checks an item that is not Checked, unchecks one
\* that is; the tree emits itemChanged.
toggle(t, item) ==
    LET state == IF t.state[item] = "Checked" THEN "Unchecked" ELSE "Checked"
    IN  Tests_updateCheckboxes([t EXCEPT !.current = item, !.toggled = item,
                                         !.state[item] = state], item)

(***************************************************************************)
(* explore/search.py: SearchDialog.Check for partial matching and criteria *)
(* that are no regular expressions.  A string is a sequence of characters. *)
(***************************************************************************)

\* The characters of the strings: a letter in both cases and the prefix of
\* a regular expression.
Chars == {"a", "A", "&"}

\* str.upper.
upper(str) == [i \in 1..Len(str) |-> IF str[i] = "a" THEN "A" ELSE str[i]]

\* str.find: the lowest index at which sub is found in str, -1 when it is
\* not found.
strFind(str, sub) ==
    LET at == {k \in 0..(Len(str) - Len(sub)) : SubSeq(str, k + 1, k + Len(sub)) = sub}
    IN  IF at = {} THEN -1 ELSE CHOOSE k \in at : \A j \in at : k <= j

\* Criteria of a dialog with all fields left empty.
NoCriteria ==
    [name |-> <<>>, role |-> <<>>, state |-> <<>>, text |-> <<>>,
     caseSensitiveMatch |-> FALSE]

\* Check.__init__ for partial matching: without case sensitivity the
\* criteria are kept in upper case.  criteria are the values entered,
\* item and result those of the last call.
Check_init(criteria) ==
    LET kept(str) == IF criteria.caseSensitiveMatch THEN str ELSE upper(str)
    IN  [name |-> kept(criteria.name), role |-> kept(criteria.role),
         state |-> kept(criteria.state), text |-> kept(criteria.text),
         caseSensitiveMatch |-> criteria.caseSensitiveMatch,
         criteria |-> criteria, called |-> FALSE, result |-> FALSE,
         item |-> [name |-> <<>>, role |-> <<>>, states |-> <<>>, text |-> <<>>]]

\* _matchName, _matchRole and _matchText of partial matching.
matchField(criterion, s) == criterion = <<>> \/ strFind(s, criterion) >= 0

\* matchState of partial matching.
matchState(criterion, s) ==
    criterion = <<>> \/ \E i \in 1..Len(s) : strFind(s[i], criterion) >= 0

\* Check.__call__ for partial matching: without case sensitivity the name
\* and the text of the item are put in upper case unless they start with
\* '&'; its role and its states are taken as they are.
Check_call(c, itemData) ==
    LET up(str) == IF ~c.caseSensitiveMatch /\ str # <<>> /\ str[1] # "&"
                   THEN upper(str) ELSE str
    IN  /\ matchField(c.name, up(itemData.name))
        /\ matchField(c.role, itemData.role)
        /\ matchState(c.state, itemData.states)
        /\ matchField(c.text, up(itemData.text))

(***************************************************************************)
(* dialogs.py, utils.py                                                    *)
(***************************************************************************)

\* ProgressDialog._update: the dialog is closed when no message is left and
\* shown otherwise.
ProgressDialog_update(s) == [s EXCEPT !.visible = (s.progressDict # {})]

\* ProgressDialog.add through dialogs.runProgress: the new message id is returned.
runProgress(s) ==
    LET id == s.progressId + 1
    IN  [ProgressDialog_update([s EXCEPT !.progressDict = @ \cup {id},
                                         !.progressId = id]) EXCEPT !.ret = id]

\* ProgressDialog.remove through dialogs.closeProgress: nothing for an id
\* that is not in _dict.
closeProgress(s, id) ==
    IF id \notin s.progressDict
    THEN s
    ELSE ProgressDialog_update([s EXCEPT !.progressDict = @ \ {id}])

\* _handleTimeout that also drops the request the message belongs to: the
\* variant C24 tells from the code.
ProgressDialog_handleTimeoutDropRequest(s, id) ==
    LET s1 == closeProgress(s, id)
        s2 == [s1 EXCEPT !.reqMap = [d \in DOMAIN @ |-> [i \in DOMAIN @[d] |->
                            IF s.progressMap[d][i] = id THEN "none" ELSE @[d][i]]]]
    IN  [s2 EXCEPT !.modal = Append(@, [kind |-> "runWarning", dev |-> "none"])]

\* ProgressDialog._handleTimeout: the message is removed, then a warning box
\* opens.
ProgressDialog_handleTimeout(s, id) ==
    LET s1 == closeProgress(s, id)
    IN  [s1 EXCEPT !.modal = Append(@, [kind |-> "runWarning", dev |-> "none"])]

\* utils.setWait: the first call stores the cursor, every call counts.
setWait(s) == [s EXCEPT !.wait = @ + 1]

\* utils.resetWait: nothing for a widget that is not waiting.
resetWait(s) == IF s.wait = 0 THEN s ELSE [s EXCEPT !.wait = @ - 1]

(***************************************************************************)
(* Sending a request                                                       *)
(***************************************************************************)

\* The request function of the client (tadek.connection): it raises when the
\* client is not connected or the transmission fails, and otherwise gives
\* the request the next id of this device's connection.
requestOk(s, d, c) == s.clientUp[d] /\ c.ok /\ s.nextId[d] < MaxId

\* DevicesDialog._requestSent forwards the signal with the device; the
\* views' _deviceRequestSent slots do nothing.
DevicesDialog_requestSent(s, d, id) == Emit(s, "DevicesDialog.requestSent", d, id)

\* requestDevice without its emit of requestSent: the variant C2 tells from
\* the code.
requestDeviceNoSignal(s, d, c) ==
    IF requestOk(s, d, c)
    THEN LET id == s.nextId[d] + 1
         IN  [s EXCEPT !.nextId[d] = id, !.ret = id]
    ELSE [Emit(s, "log.exception", d, None) EXCEPT !.ret = None]

\* requestDevice with the emit after the try statement instead of in its
\* else clause, so that a failed request emits requestSent too: the variant
\* C3 tells from the code.
requestDeviceSignalAlways(s, d, c) ==
    IF requestOk(s, d, c)
    THEN LET id == s.nextId[d] + 1
             s1 == [s EXCEPT !.nextId[d] = id]
             s2 == DevicesDialog_requestSent(Emit(s1, "requestSent", d, id), d, id)
         IN  [s2 EXCEPT !.ret = id]
    ELSE LET s1 == Emit(s, "log.exception", d, None)
             s2 == DevicesDialog_requestSent(Emit(s1, "requestSent", d, None), d, None)
         IN  [s2 EXCEPT !.ret = None]

\* requestDevice without the `return id` of its else clause, returning None
\* after the emit: the variant C18 tells from the code.
requestDeviceNoReturn(s, d, c) ==
    IF requestOk(s, d, c)
    THEN LET id == s.nextId[d] + 1
             s1 == [s EXCEPT !.nextId[d] = id]
             s2 == DevicesDialog_requestSent(Emit(s1, "requestSent", d, id), d, id)
         IN  [s2 EXCEPT !.ret = None]
    ELSE [Emit(s, "log.exception", d, None) EXCEPT !.ret = None]

\* DeviceObject.requestDevice.
requestDevice(s, d, c) ==
    IF requestOk(s, d, c)
    THEN LET id == s.nextId[d] + 1
             s1 == [s EXCEPT !.nextId[d] = id]
             s2 == DevicesDialog_requestSent(Emit(s1, "requestSent", d, id), d, id)
         IN  [s2 EXCEPT !.ret = id]
    ELSE [Emit(s, "log.exception", d, None) EXCEPT !.ret = None]

\* _registerRequest without its test of the id: the variant C22 tells from
\* the code.
registerRequestAnyId(s, d, id, handler) ==
    [s EXCEPT !.reqIds = @ \cup {id},
              !.reqMap[d] = [i \in DOMAIN @ |-> IF i = id THEN handler ELSE @[i]]]

\* DeviceTab._registerRequest.
registerRequest(s, d, id, handler) ==
    IF id # None
    THEN [s EXCEPT !.reqIds = @ \cup {id}, !.reqMap[d][id] = handler]
    ELSE s

\* DeviceTab._runProgress.
tabRunProgress(s, d, id) ==
    IF id # None
    THEN LET s1 == runProgress(s)
         IN  [s1 EXCEPT !.progressMap[d][id] = s1.ret]
    ELSE s

\* DeviceTab.refreshAll.
refreshAll(s, d, c) ==
    IF s.tabs[d] # "active"
    THEN s
    ELSE LET s1 == requestDevice(s, d, c)
             id == s1.ret
         IN  tabRunProgress(registerRequest(s1, d, id, "RefreshAll"), d, id)

\* DeviceTab.showAccessible, for a selected item outside a search.
showAccessible(s, d, c) ==
    LET s1 == requestDevice(s, d, c)
    IN  setWait(registerRequest(s1, d, s1.ret, "Refresh"))

(***************************************************************************)
(* The search of a device tab (explore/device.py) and the buttons of the   *)
(* search dialog (explore/search.py)                                       *)
(***************************************************************************)

\* DeviceTab.__init__: both manual flags are cleared.  stop is
\* _stopSearching, count is _parentAcc.count, parents holds the counts of
\* _parentAccs; dialog is what the buttons of the search dialog allow
\* ("idle": Search, "searching": Stop, "found": Next), searching is
\* SearchDialog._searching (its slots are connected to the tab); started and
\* ended count the searches started and the ending signals the tab emitted.
SearchInit ==
    [manualExpand |-> FALSE, manualSelect |-> FALSE, stop |-> FALSE, deep |-> FALSE,
     nextIndex |-> 0, count |-> 0, parents |-> <<>>, dialog |-> "idle",
     searching |-> FALSE, started |-> 0, ended |-> 0]

\* DeviceTab.stopSearching.
stopSearching(s, d) == [s EXCEPT !.search[d].stop = TRUE]

\* SearchDialog._stopSearching: the buttons are reset, and a dialog that
\* is searching stops the tab and disconnects its slots.
SearchDialog_stopSearching(s, d) ==
    LET s1 == [s EXCEPT !.search[d].dialog = "idle"]
    IN  IF s1.search[d].searching
        THEN [stopSearching(s1, d) EXCEPT !.search[d].searching = FALSE]
        ELSE s1

\* The tab emits itemFound, itemNotFound or searchingStopped with both flags
\* cleared before; the slots of the search dialog set its buttons.
endSearch(s, d, sig) ==
    LET f  == s.search[d]
        s1 == [s EXCEPT !.search[d].manualExpand = FALSE,
                        !.search[d].manualSelect = FALSE,
                        !.search[d].ended = @ + 1]
        s2 == Emit(s1, sig, d, None)
    IN  IF ~f.searching THEN s2
        ELSE IF sig = "itemFound" THEN [s2 EXCEPT !.search[d].dialog = "found"]
        ELSE IF sig = "itemNotFound" THEN [s2 EXCEPT !.search[d].dialog = "idle"]
        ELSE SearchDialog_stopSearching(s2, d)

\* The requests _responseFind sends for the remaining children of the
\* parent after a match (handler fillRemaining).
RECURSIVE requestRemaining(_, _, _, _)
requestRemaining(s, d, n, c) ==
    IF n <= 0
    THEN s
    ELSE LET s1 == requestDevice(s, d, c)
         IN  requestRemaining(registerRequest(s1, d, s1.ret, "Fill"), d, n - 1, c)

\* The end of _responseFind: the parent is exhausted (not found, or the
\* next parent of a deep search), then the request for the next child.
responseFindNext(s, d, c) ==
    LET f == s.search[d]
        exhausted == \/ f.nextIndex > 0 /\ f.nextIndex >= f.count
                     \/ f.nextIndex = 0 /\ f.count = 0
    IN  IF exhausted /\ (~f.deep \/ f.parents = <<>>)
        THEN endSearch(s, d, "itemNotFound")
        ELSE LET s1 == IF exhausted
                       THEN [s EXCEPT !.search[d].count = Head(f.parents),
                                      !.search[d].parents = Tail(f.parents),
                                      !.search[d].nextIndex = 0]
                       ELSE s
                 s2 == [s1 EXCEPT !.search[d].nextIndex = @ + 1]
                 s3 == requestDevice(s2, d, c)
             IN  registerRequest(s3, d, s3.ret, "Find")

\* DeviceTab._responseFind; c.status tells whether the accessible of the
\* response matches the criteria, c.count is its number of children.
responseFind(s, d, response, c) ==
    IF s.search[d].stop
    THEN endSearch(s, d, "searchingStopped")
    ELSE IF ~response
    THEN responseFindNext(s, d, c)
    ELSE LET s1 == IF c.count > 0
                   THEN [s EXCEPT !.search[d].parents = Append(@, c.count)]
                   ELSE s
         IN  IF c.status
             THEN LET f == s1.search[d]
                      s2 == [s1 EXCEPT !.search[d].manualExpand = FALSE,
                                       !.search[d].manualSelect = FALSE]
                      s3 == requestRemaining(s2, d, f.count - f.nextIndex, c)
                  IN  endSearch(s3, d, "itemFound")
             ELSE responseFindNext(s1, d, c)

\* DeviceTab.find: count is the number of children of the selected item.
find(s, d, deep, count, c) ==
    IF s.tabs[d] # "active"
    THEN Emit(Emit(s, "runWarning", d, None), "searchingStopped", d, None)
    ELSE responseFind([s EXCEPT !.search[d].started = @ + 1,
                                !.search[d].manualExpand = TRUE,
                                !.search[d].manualSelect = TRUE,
                                !.search[d].deep = deep,
                                !.search[d].stop = FALSE,
                                !.search[d].nextIndex = 0,
                                !.search[d].parents = <<>>,
                                !.search[d].count = count], d, FALSE, c)

\* DeviceTab.findNext.
findNext(s, d, c) ==
    IF s.tabs[d] # "active"
    THEN Emit(Emit(s, "runWarning", d, None), "searchingStopped", d, None)
    ELSE responseFind([s EXCEPT !.search[d].started = @ + 1,
                                !.search[d].manualExpand = TRUE,
                                !.search[d].manualSelect = TRUE], d, FALSE, c)

\* SearchDialog._startSearching for the current tab with a selected item.
SearchDialog_startSearching(s, d, deep, count, c) ==
    find([s EXCEPT !.search[d].dialog = "searching",
                   !.search[d].searching = TRUE], d, deep, count, c)

\* SearchDialog._nextSearching.
SearchDialog_nextSearching(s, d, c) ==
    findNext([s EXCEPT !.search[d].dialog = "searching"], d, c)

(***************************************************************************)
(* Processing a response                                                   *)
(***************************************************************************)

\* The loop of DeviceTab._responseRefreshAll: one request per child.
RECURSIVE requestChildren(_, _, _, _)
requestChildren(s, d, n, c) ==
    IF n = 0
    THEN s
    ELSE LET s1 == requestDevice(s, d, c)
         IN  requestChildren(registerRequest(s1, d, s1.ret, "Add"), d, n - 1, c)

\* DeviceTab._responseRefreshAll.
responseRefreshAll(s, d, c) ==
    IF ~c.status THEN s ELSE requestChildren(s, d, c.count, c)

\* The call func(response, *args) of DeviceTab.process.  _responseAdd and
\* _responseRefresh(expanded=False) change the item tree only.
callHandler(s, d, id, handler, c) ==
    LET s1 == Emit(s, "handler", d, id)
    IN  IF handler = "RefreshAll" THEN responseRefreshAll(s1, d, c)
        ELSE IF handler = "Find" THEN responseFind(s1, d, TRUE, c)
        ELSE s1

\* process that reads the handler without taking it out of _reqMap: the
\* variant C21 tells from the code.
processKeepHandler(s, d, id, c) ==
    IF s.reqMap[d][id] = "none"
    THEN Emit(s, "process.False", d, id)
    ELSE LET handler == s.reqMap[d][id]
             s2 == callHandler(s, d, id, handler, c)
             pid == s2.progressMap[d][id]
             s3 == [s2 EXCEPT !.progressMap[d][id] = None]
             s4 == IF pid # None THEN closeProgress(s3, pid) ELSE s3
         IN  Emit(resetWait(s4), "process.True", d, id)

\* DeviceTab.process; what it returns is recorded as process.True or
\* process.False.
process(s, d, id, c) ==
    IF s.reqMap[d][id] = "none"
    THEN Emit(s, "process.False", d, id)
    ELSE LET handler == s.reqMap[d][id]
             s1 == [s EXCEPT !.reqMap[d][id] = "none"]
             s2 == callHandler(s1, d, id, handler, c)
             pid == s2.progressMap[d][id]
             s3 == [s2 EXCEPT !.progressMap[d][id] = None]
             s4 == IF pid # None THEN closeProgress(s3, pid) ELSE s3
         IN  Emit(resetWait(s4), "process.True", d, id)

\* Device.getResponse (tadek.connection): the response of the id leaves the
\* message queue; a response that is not there cannot be fetched.
getResponse(s, d, id) ==
    LET s1 == Emit(s, "getResponse", d, id)
    IN  IF \E i \in 1..Len(s.messages[d]) : s.messages[d][i] = id
        THEN [Emit(s1, "fetched", d, id) EXCEPT !.messages[d] = RemoveFirst(@, id),
                                                 !.ret = id]
        ELSE [s1 EXCEPT !.ret = None]

\* View._deviceResponseReceived without reqIds.remove(id): the variant C6
\* tells from the code.
View_deviceResponseReceivedKeepId(s, d, id) ==
    IF id \notin s.reqIds
    THEN [s EXCEPT !.ret = None]
    ELSE getResponse(s, d, id)

\* View._deviceResponseReceived.
View_deviceResponseReceived(s, d, id) ==
    IF id \notin s.reqIds
    THEN [s EXCEPT !.ret = None]
    ELSE getResponse([s EXCEPT !.reqIds = @ \ {id}], d, id)

\* Explore._deviceResponseReceived.
Explore_deviceResponseReceived(s, d, id, c) ==
    LET s1 == View_deviceResponseReceived(s, d, id)
    IN  IF s1.ret = None
        THEN s1
        ELSE IF s1.tabs[d] # "none"
             THEN process(s1, d, id, c)
             ELSE Emit(s1, "log.ignoring", d, id)

\* DevicesDialog._responseReceived forwards the signal to the views.
DevicesDialog_responseReceived(s, d, id, c) ==
    Explore_deviceResponseReceived(Emit(s, "DevicesDialog.responseReceived", d, id),
                                   d, id, c)

(***************************************************************************)
(* Connecting and disconnecting                                            *)
(***************************************************************************)

NoReq == [id \in Ids |-> "none"]
NoProgress == [id \in Ids |-> None]

\* DeviceTab.setActive: the flag is set, then refreshAll runs (and returns at
\* once on an inactive tab).
setActive(s, d, active, c) ==
    refreshAll([s EXCEPT !.tabs[d] = IF active THEN "active" ELSE "inactive"], d, c)

\* Explore._addDeviceTab: DeviceTab.__init__ starts with empty maps and
\* activates the tab.
addDeviceTab(s, d, c) ==
    setActive([s EXCEPT !.reqMap[d] = NoReq, !.progressMap[d] = NoProgress,
                        !.search[d] = SearchInit,
                        !.tabOrder = Append(@, d)], d, TRUE, c)

\* Explore._removeDeviceTab: the tab object goes, and its maps with it.
removeDeviceTab(s, d) ==
    IF s.tabs[d] = "none"
    THEN s
    ELSE [s EXCEPT !.tabs[d] = "none", !.reqMap[d] = NoReq,
                   !.progressMap[d] = NoProgress,
                   !.tabOrder = SelectSeq(@, LAMBDA x : x # d)]

\* Explore._deviceConnected.
Explore_deviceConnected(s, d, c) ==
    IF s.tabs[d] # "none" THEN setActive(s, d, TRUE, c) ELSE addDeviceTab(s, d, c)

\* DevicesDialog._deviceConnected forwards the signal to the views.
DevicesDialog_deviceConnected(s, d, c) ==
    Explore_deviceConnected(Emit(s, "DevicesDialog.connected", d, None), d, c)

\* Device.connect (tadek.connection): it returns True on success, returns
\* False or raises ConnectionError otherwise; on a connected client it is a
\* no-op returning success.
ConnectOutcomes(s, d) == IF s.clientUp[d] THEN {"ok"} ELSE {"ok", "fail", "raise"}

\* connectDevice without the test of what the underlying connect returned:
\* the variant C1 tells from the code.
connectDeviceUnchecked(s, d, outcome, c) ==
    IF outcome = "raise"
    THEN [s EXCEPT !.raised = TRUE]
    ELSE LET s1 == [s EXCEPT !.clientUp[d] = (outcome = "ok"), !.connected[d] = TRUE]
         IN  DevicesDialog_deviceConnected(Emit(s1, "connected", d, None), d, c)

\* DeviceObject.connectDevice.
connectDevice(s, d, outcome, c) ==
    IF outcome = "raise"
    THEN [s EXCEPT !.raised = TRUE]
    ELSE IF outcome = "ok"
         THEN LET s1 == [s EXCEPT !.clientUp[d] = TRUE, !.connected[d] = TRUE]
              IN  DevicesDialog_deviceConnected(Emit(s1, "connected", d, None), d, c)
         ELSE s

\* _deviceDisconnected that leaves a kept tab as it is, without
\* tab.setActive(False): the variant C17 tells from the code.
Explore_afterQuestionKeepActive(s, d, close, c) ==
    LET s1 == IF close THEN removeDeviceTab(s, d) ELSE s
    IN  Emit(s1, "searchingStopped", d, None)

\* The part of Explore._deviceDisconnected after the operator's answer to
\* "Do you want to close the tab?" (asked only for a disconnect by error).
Explore_afterQuestion(s, d, close, c) ==
    LET s1 == IF close THEN removeDeviceTab(s, d) ELSE setActive(s, d, FALSE, c)
    IN  Emit(s1, "searchingStopped", d, None)

\* Explore._deviceDisconnected: with error set the question box opens and
\* the rest of the slot waits for the answer.
Explore_deviceDisconnected(s, d, error, c) ==
    IF s.tabs[d] = "none"
    THEN s
    ELSE IF error
         THEN [s EXCEPT !.modal = Append(@, [kind |-> "runQuestion", dev |-> d])]
         ELSE Explore_afterQuestion(s, d, TRUE, c)

\* DevicesDialog._deviceDisconnected.
DevicesDialog_deviceDisconnected(s, d, c) ==
    LET error == d \in s.errors
        s1 == [s EXCEPT !.errors = @ \ {d}]
        s2 == [s1 EXCEPT !.emitted =
                  Append(@, Sig("DevicesDialog.disconnected", d, None, error))]
    IN  Explore_deviceDisconnected(s2, d, error, c)

\* disconnectDevice without the test of what the underlying disconnect
\* returned and of _connected: the variant C15 tells from the code.
disconnectDeviceAlways(s, d, c) ==
    LET s1 == [s EXCEPT !.clientUp[d] = FALSE]
    IN  DevicesDialog_deviceDisconnected(
            Emit([s1 EXCEPT !.connected[d] = FALSE], "disconnected", d, None), d, c)

\* DeviceObject.disconnectDevice; Device.disconnect (tadek.connection)
\* returns True when it closed an open connection.
disconnectDevice(s, d, c) ==
    LET done == s.clientUp[d]
        s1 == [s EXCEPT !.clientUp[d] = FALSE]
    IN  IF done \/ s.connected[d]
        THEN DevicesDialog_deviceDisconnected(
                 Emit([s1 EXCEPT !.connected[d] = FALSE], "disconnected", d, None), d, c)
        ELSE s1

\* DevicesDialog._updateConnectionState: a ConnectionError is caught and
\* shown in a message box, after which the slot returns.
updateConnectionState(s, state, d, outcome, c) ==
    LET s1 == IF state THEN connectDevice(s, d, outcome, c) ELSE disconnectDevice(s, d, c)
    IN  IF s1.raised
        THEN [Emit(s1, "runError", d, None) EXCEPT !.raised = FALSE]
        ELSE s1

(***************************************************************************)
(* Notifications from the message queue                                    *)
(***************************************************************************)

\* Device.getError, client.error (tadek.connection): the error accessor
\* takes the error message out of the message queue.
getError(s, d) == [s EXCEPT !.messages[d] = RemoveFirst(@, ERROR_MSG_ID)]

\* DevicesDialog._errorOccurred up to its message box: for a
\* ConnectionLostError the box opens and the rest waits for it to close.
DevicesDialog_errorOccurred(s, d) ==
    LET s1 == Emit(getError(s, d), "log.error", d, None)
    IN  IF s1.clientErr[d] = "lost"
        THEN [s1 EXCEPT !.modal = Append(@, [kind |-> "runError", dev |-> d])]
        ELSE s1

\* The part of DevicesDialog._errorOccurred after its message box.
DevicesDialog_afterError(s, d, c) ==
    updateConnectionState([s EXCEPT !.errors = @ \cup {d}], FALSE, d, "ok", c)

\* _responseReceived that passes a response on only while the device is
\* connected: the variant C4 tells from the code.
DeviceObject_responseReceivedWhenConnected(s, d, id, c) ==
    IF id > DEFAULT_MSG_ID
    THEN IF s.connected[d]
         THEN DevicesDialog_responseReceived(Emit(s, "responseReceived", d, id), d, id, c)
         ELSE s
    ELSE IF id = ERROR_MSG_ID
         THEN IF s.connected[d]
              THEN DevicesDialog_errorOccurred(Emit(s, "errorOccurred", d, None), d)
              ELSE Emit(getError(s, d), "log.warning", d, None)
         ELSE s

\* _responseReceived without the test of _connected in its error branch: the
\* variant C5 tells from the code.
DeviceObject_responseReceivedAnyError(s, d, id, c) ==
    IF id > DEFAULT_MSG_ID
    THEN DevicesDialog_responseReceived(Emit(s, "responseReceived", d, id), d, id, c)
    ELSE IF id = ERROR_MSG_ID
         THEN DevicesDialog_errorOccurred(Emit(s, "errorOccurred", d, None), d)
         ELSE s

\* DeviceObject._responseReceived.
DeviceObject_responseReceived(s, d, id, c) ==
    IF id > DEFAULT_MSG_ID
    THEN DevicesDialog_responseReceived(Emit(s, "responseReceived", d, id), d, id, c)
    ELSE IF id = ERROR_MSG_ID
         THEN IF s.connected[d]
              THEN DevicesDialog_errorOccurred(Emit(s, "errorOccurred", d, None), d)
              ELSE Emit(getError(s, d), "log.warning", d, None)
         ELSE s

\* The connection made in DeviceObject.__init__, of type QueuedConnection:
\* an emitted notEmpty(id) is posted to the event loop of the GUI thread.
notEmptyEmit(s, d, id, c) == [s EXCEPT !.events = Append(@, [dev |-> d, id |-> id])]

\* Queue._notifyNotEmpty without its emit of notEmpty, the base method alone:
\* the variant C12 tells from the code.
Queue_notifyNotEmptyBaseOnly(s, d, id, c) == s

\* Queue._notifyNotEmpty (the base method notifies waiting threads only).
Queue_notifyNotEmpty(s, d, id, c) == notEmptyEmit(s, d, id, c)

\* queue.Queue.put (tadek.core): the item joins the queue; the notification
\* is given when the queue was empty before and may be left out otherwise.
MustNotify(s, d) == s.messages[d] = <<>>

put(s, d, id, notify, c) ==
    LET s1 == [s EXCEPT !.messages[d] = Append(@, id)]
    IN  IF notify \/ MustNotify(s, d) THEN Queue_notifyNotEmpty(s1, d, id, c) ELSE s1

\* queue.Queue.get taken from the front: the newest item instead of the
\* oldest, the variant C11 tells from the queue.
popNewest(s, d) ==
    IF s.messages[d] = <<>>
    THEN [s EXCEPT !.raised = TRUE, !.ret = None]
    ELSE [s EXCEPT !.messages[d] = SubSeq(@, 1, Len(@) - 1),
                   !.ret = s.messages[d][Len(s.messages[d])]]

\* The pop of the queue (tadek.core): the oldest item leaves the queue and is
\* returned; on an empty queue the call fails at once with Empty.
pop(s, d) ==
    IF s.messages[d] = <<>>
    THEN [s EXCEPT !.raised = TRUE, !.ret = None]
    ELSE [s EXCEPT !.messages[d] = Tail(@), !.ret = Head(s.messages[d])]

\* The value allDone carries for a done() without an id.
ALL_IDS == -1

\* Queue._notifyAllDone without the replacement of None: the variant C13
\* tells from the code.
Queue_notifyAllDoneAsIs(s, d, id) == Emit(s, "allDone", d, id)

\* Queue._notifyAllDone (the base method notifies waiting threads only).
Queue_notifyAllDone(s, d, id) ==
    Emit(s, "allDone", d, IF id = None THEN ALL_IDS ELSE id)

\* queue.Queue.done (tadek.core): the tasks of the id, or with None all
\* tasks, are marked done; when no task of it remains the queue notifies.
done(s, d, id) ==
    IF id = None \/ ~\E i \in 1..Len(s.messages[d]) : s.messages[d][i] = id
    THEN Queue_notifyAllDone(s, d, id)
    ELSE s

(***************************************************************************)
(* The registry of devices and the configuration dialog                    *)
(***************************************************************************)

\* devices.get (tadek.core.devices): the devices registered under the name,
\* none or one.
devicesGet(s, name) == {d \in Devs : s.registry[d] = name}

\* devices.remove (tadek.core.devices): the name leaves the registry.
devicesRemove(s, name) ==
    [s EXCEPT !.registry = [d \in Devs |-> IF @[d] = name THEN NoName ELSE @[d]]]

\* Device.__init__ through devices.add(type=Device): a new device object,
\* Disconnected, with a client and a message queue of its own.
newDevice(s, d) ==
    [s EXCEPT !.connected[d] = FALSE, !.clientUp[d] = FALSE, !.clientErr[d] = "none",
              !.nextId[d] = DEFAULT_MSG_ID, !.messages[d] = <<>>,
              !.events = SelectSeq(@, LAMBDA e : e.dev # d),
              !.reqMap[d] = NoReq, !.progressMap[d] = NoProgress,
              !.errors = @ \ {d}]

\* devices.add (tadek.core.devices): a new device object is stored in the
\* registry under its name; the registry is a dictionary keyed by name, so
\* a device that held the name before is no longer in it.
devicesAdd(s, d, name) ==
    [newDevice(s, d) EXCEPT
        !.registry = [e \in Devs |-> IF e = d THEN name
                                      ELSE IF @[e] = name THEN NoName ELSE @[e]]]

\* A device object that is no longer used: in no registry, Disconnected and
\* without a tab.
Free(s) == {d \in Devs : s.registry[d] = NoName /\ ~s.connected[d]
                            /\ s.tabs[d] = "none"}

\* _accept without the test of devices.get(name): the variant C19 tells from
\* the code.
DeviceConfigDialog_acceptAnyName(s, dev, name, address) ==
    /\ name # ""
    /\ address # ""

\* DeviceConfigDialog._accept: TRUE when the data are accepted; dev is the
\* device being edited, "none" in the Add dialog.
DeviceConfigDialog_accept(s, dev, name, address) ==
    /\ name # ""
    /\ address # ""
    /\ ~((dev = "none" \/ s.registry[dev] # name) /\ devicesGet(s, name) # {})

\* DevicesDialog._addDevice after the dialog was accepted.
DevicesDialog_addDevice(s, new, name, connect, outcome, c) ==
    LET s1 == devicesAdd(s, new, name)
    IN  IF connect THEN updateConnectionState(s1, TRUE, new, outcome, c) ELSE s1

\* DevicesDialog._editDevice after the dialog was accepted, up to the
\* connect: a changed name disconnects the device and replaces it by a new
\* one, a changed address disconnects it.
editDeviceUpdate(s, d, new, name, address, c) ==
    IF s.registry[d] # name
    THEN LET s1 == updateConnectionState(s, FALSE, d, "ok", c)
         IN  devicesAdd(devicesRemove(s1, s.registry[d]), new, name)
    ELSE IF address # "same"
         THEN updateConnectionState(s, FALSE, d, "ok", c)
         ELSE s

\* DevicesDialog._editDevice after the dialog was accepted.
DevicesDialog_editDevice(s, d, new, name, address, connect, outcome, c) ==
    LET s1 == editDeviceUpdate(s, d, new, name, address, c)
        dev == IF s.registry[d] # name THEN new ELSE d
    IN  IF connect THEN updateConnectionState(s1, TRUE, dev, outcome, c) ELSE s1

\* _removeDevice without its disconnect: the variant C27 tells from the
\* code.
DevicesDialog_removeDeviceOnly(s, d, c) == devicesRemove(s, s.registry[d])

\* DevicesDialog._removeDevice after the operator confirmed.
DevicesDialog_removeDevice(s, d, c) ==
    devicesRemove(updateConnectionState(s, FALSE, d, "ok", c), s.registry[d])

\* DevicesDialog.unload: every device of the registry is disconnected.
RECURSIVE DevicesDialog_unload(_, _, _)
DevicesDialog_unload(s, ds, c) ==
    IF ds = {}
    THEN s
    ELSE LET d == CHOOSE x \in ds : TRUE
         IN  DevicesDialog_unload(updateConnectionState(s, FALSE, d, "ok", c),
                                  ds \ {d}, c)

(***************************************************************************)
(* test/progresschannel.py: the progress helper of a test run.  The runner *)
(* thread calls start, stopTest for each finished test and stop; each      *)
(* emitted stoppedTest is posted to the GUI thread, whose event loop runs  *)
(* _update.  The threads interleave between the statements below; the      *)
(* statement _toHandle += 1 reads the attribute and stores it in two       *)
(* steps.                                                                  *)
(***************************************************************************)

\* ProgressChannelHelper.__init__: the lock is free and nothing is posted.
\* rpc and gpc are the positions of the runner and the GUI thread, rtmp and
\* gtmp the values they read, owner the thread holding _mutex, posted the
\* stoppedTest signals awaiting the event loop; issued, handled, emits,
\* stopCalled and failed are history.
HelperInit ==
    [toHandle |-> 0, stopped |-> FALSE, owner |-> "none", posted |-> 0,
     rpc |-> "idle", left |-> 0, rtmp |-> 0, gpc |-> "idle", gtmp |-> 0,
     issued |-> 0, handled |-> 0, emits |-> 0, stopCalled |-> FALSE,
     failed |-> 0]

\* The call the runner makes after start or stopTest: stopTest while tests
\* are left, then stop.
NextCall(left) == IF left > 0 THEN "stopTest" ELSE "stop"

\* ProgressChannelHelper.start for a run of n test cases.
Helper_start(n) ==
    /\ helper.rpc = "idle"
    /\ helper' = [helper EXCEPT !.toHandle = 0, !.stopped = FALSE, !.left = n,
                                !.rpc = NextCall(n)]
    /\ UNCHANGED <<devVars, pureVars>>

\* stopTest: self._mutex.acquire() waits until the lock is free.
stopTest_acquire ==
    /\ helper.rpc = "stopTest"
    /\ helper.owner = "none"
    /\ helper' = [helper EXCEPT !.owner = "runner", !.rpc = "stopTest.load"]
    /\ UNCHANGED <<devVars, pureVars>>

\* stopTest: self._toHandle += 1, the read.
stopTest_load ==
    /\ helper.rpc = "stopTest.load"
    /\ helper' = [helper EXCEPT !.rtmp = helper.toHandle, !.rpc = "stopTest.store"]
    /\ UNCHANGED <<devVars, pureVars>>

\* stopTest: self._toHandle += 1, the store.
stopTest_store ==
    /\ helper.rpc = "stopTest.store"
    /\ helper' = [helper EXCEPT !.toHandle = helper.rtmp + 1, !.rpc = "stopTest.release"]
    /\ UNCHANGED <<devVars, pureVars>>

\* stopTest: self._mutex.release().
stopTest_release ==
    /\ helper.rpc = "stopTest.release"
    /\ helper' = [helper EXCEPT !.owner = "none", !.rpc = "stopTest.emit"]
    /\ UNCHANGED <<devVars, pureVars>>

\* stopTest: self.stoppedTest.emit(result, device), posted to the GUI thread.
stopTest_emit ==
    /\ helper.rpc = "stopTest.emit"
    /\ helper' = [helper EXCEPT !.posted = @ + 1, !.issued = @ + 1, !.left = @ - 1,
                                !.rpc = NextCall(helper.left - 1)]
    /\ UNCHANGED <<devVars, pureVars>>

\* stop: self._stopped = True.
stop_setStopped ==
    /\ helper.rpc = "stop"
    /\ helper' = [helper EXCEPT !.stopped = TRUE, !.stopCalled = TRUE, !.rpc = "stop.test"]
    /\ UNCHANGED <<devVars, pureVars>>

\* stop: if self._toHandle == 0: self.stopped.emit().
stop_test ==
    /\ helper.rpc = "stop.test"
    /\ helper' = [helper EXCEPT !.emits = IF helper.toHandle = 0 THEN @ + 1 ELSE @,
                                !.rpc = "done"]
    /\ UNCHANGED <<devVars, pureVars>>

\* _update is called for a posted stoppedTest: self._mutex.acquire(blocking=0)
\* takes the lock when it is free and returns at once when it is not.
update_acquire ==
    /\ helper.gpc = "idle"
    /\ helper.posted > 0
    /\ helper' = [helper EXCEPT !.posted = @ - 1,
                                !.owner = IF @ = "none" THEN "gui" ELSE @,
                                !.gpc = "_update.load"]
    /\ UNCHANGED <<devVars, pureVars>>

\* _update: self._toHandle -= 1, the read.
update_load ==
    /\ helper.gpc = "_update.load"
    /\ helper' = [helper EXCEPT !.gtmp = helper.toHandle, !.gpc = "_update.store"]
    /\ UNCHANGED <<devVars, pureVars>>

\* _update: self._toHandle -= 1, the store.
update_store ==
    /\ helper.gpc = "_update.store"
    /\ helper' = [helper EXCEPT !.toHandle = helper.gtmp - 1, !.gpc = "_update.release"]
    /\ UNCHANGED <<devVars, pureVars>>

\* _update: self._mutex.release() raises RuntimeError when the GUI thread
\* does not hold the lock, which ends the slot.
update_release ==
    /\ helper.gpc = "_update.release"
    /\ helper' = IF helper.owner = "gui"
                 THEN [helper EXCEPT !.owner = "none", !.gpc = "_update.test"]
                 ELSE [helper EXCEPT !.failed = @ + 1, !.handled = @ + 1, !.gpc = "idle"]
    /\ UNCHANGED <<devVars, pureVars>>

\* _update: if self._toHandle == 0 and self._stopped: self.stopped.emit().
update_test ==
    /\ helper.gpc = "_update.test"
    /\ helper' = [helper EXCEPT
                     !.emits = IF helper.toHandle = 0 /\ helper.stopped THEN @ + 1 ELSE @,
                     !.handled = @ + 1, !.gpc = "idle"]
    /\ UNCHANGED <<devVars, pureVars>>

(***************************************************************************)
(* The state machine                                                       *)
(***************************************************************************)

\* The ids a device tab has a handler registered for.
Pending(d) == {id \in Ids : reqMap[d][id] # "none"}

\* The history of a step: the operation, its thread, and what held before it
\* (was: the connection flags, next: the last ids given out; for a dispatch
\* reg: the view's registered ids, and depth: the error handlers of the device
\* that are suspended in a message box; for a put posted: the notifications
\* awaiting dispatch; for an operation of the queue queued: its items;
\* names: the registry; name: the name entered in the configuration dialog).
Op(op, d, id, thread) ==
    [op |-> op, dev |-> d, id |-> id, thread |-> thread, ret |-> None,
     names |-> registry, name |-> NoName, address |-> "same",
     outcome |-> "none", raised |-> FALSE, was |-> connected, next |-> nextId,
     reg |-> IF op = "dispatch" THEN reqIds ELSE {},
     posted |-> IF thread = "net" THEN events ELSE <<>>,
     queued |-> IF thread = "net" \/ op \in {"pop", "done"} THEN messages[d] ELSE <<>>,
     depth |-> IF op = "dispatch"
               THEN Count(modal, LAMBDA f : f.kind = "runError" /\ f.dev = d)
               ELSE 0]

\* The step to program state s, with the history variables kept up.
Apply(s, op) ==
    /\ Len(s.modal) <= modalCap
    /\ Len(s.events) <= MaxEvents
    /\ s.progressId < MaxId
    /\ helper' = helper
    /\ UNCHANGED pureVars
    /\ registry' = s.registry
    /\ modalCap' = modalCap
    /\ connected' = s.connected
    /\ clientUp' = s.clientUp
    /\ clientErr' = s.clientErr
    /\ nextId' = s.nextId
    /\ messages' = s.messages
    /\ events' = s.events
    /\ modal' = s.modal
    /\ tabs' = s.tabs
    /\ tabOrder' = s.tabOrder
    /\ reqMap' = s.reqMap
    /\ progressMap' = s.progressMap
    /\ reqIds' = s.reqIds
    /\ errors' = s.errors
    /\ progressId' = s.progressId
    /\ progressDict' = s.progressDict
    /\ progressVisible' = s.visible
    /\ search' = s.search
    /\ wait' = s.wait
    /\ emitted' = s.emitted
    /\ lastOp' = [op EXCEPT !.raised = s.raised]
    /\ fetchCount' = [d \in Devs |-> [id \in Ids |->
                        fetchCount[d][id] +
                        Count(s.emitted, LAMBDA e : e.sig = "fetched" /\ e.dev = d
                                                     /\ e.id = id)]]
    /\ dropped' = [d \in Devs |->
                     IF connected[d] /\ ~s.connected[d] THEN Pending(d)
                     ELSE IF ~connected[d] /\ s.connected[d] THEN {}
                     ELSE dropped[d]]
    /\ lostConn' = [d \in Devs |->
                     IF connected[d] /\ ~s.connected[d] THEN op.op = "closeError"
                     ELSE IF ~connected[d] /\ s.connected[d] THEN FALSE
                     ELSE lostConn[d]]

\* The choices of a step that sends requests but runs no response handler.
SendChoices == {c \in Choices : c.status /\ c.count = 0}

\* The choice of a step that sends no request and runs no response handler.
NoChoice == [ok |-> FALSE, status |-> FALSE, count |-> 0]

\* The devices of the registry.
Registered == {d \in Devs : registry[d] # NoName}

\* The state after construction, with the devices the configuration holds.
InitDevices(reg, cap) ==
    /\ helper = HelperInit
    /\ registry = reg
    /\ modalCap = cap
    /\ connected = [d \in Devs |-> FALSE]
    /\ clientUp = [d \in Devs |-> FALSE]
    /\ clientErr = [d \in Devs |-> "none"]
    /\ nextId = [d \in Devs |-> DEFAULT_MSG_ID]
    /\ messages = [d \in Devs |-> <<>>]
    /\ events = <<>>
    /\ modal = <<>>
    /\ tabs = [d \in Devs |-> "none"]
    /\ tabOrder = <<>>
    /\ reqMap = [d \in Devs |-> NoReq]
    /\ progressMap = [d \in Devs |-> NoProgress]
    /\ reqIds = {}
    /\ errors = {}
    /\ progressId = -1
    /\ progressDict = {}
    /\ progressVisible = FALSE
    /\ search = [d \in Devs |-> SearchInit]
    /\ wait = 0
    /\ emitted = <<>>
    /\ lastOp = [op |-> "init", dev |-> "none", id |-> None, thread |-> "gui",
                 ret |-> None, outcome |-> "none", raised |-> FALSE,
                 names |-> reg, name |-> NoName,
                 was |-> [d \in Devs |-> FALSE],
                 next |-> [d \in Devs |-> DEFAULT_MSG_ID], reg |-> {},
                 posted |-> <<>>, queued |-> <<>>, depth |-> 0]
    /\ fetchCount = [d \in Devs |-> [id \in Ids |-> 0]]
    /\ dropped = [d \in Devs |-> {}]
    /\ lostConn = [d \in Devs |-> FALSE]

\* One device is configured.
OneDevice == [d \in Devs |-> IF d = "d1" THEN "a" ELSE NoName]

\* The state after construction with an empty list of last values.
InitWith(reg, cap) ==
    /\ InitDevices(reg, cap)
    /\ lv = LastValues_init(<<>>, MaxValues)
    /\ tree = Tests_refresh([i \in Items |-> 0])
    /\ check = Check_init(NoCriteria)

Init == InitWith(OneDevice, MaxModal)

\* The operator presses Connect (DevicesDialog._updateConnectionState(True, dev)).
ConnectDevice(d) ==
    /\ modal = <<>>
    /\ \E outcome \in ConnectOutcomes(Cur, d), c \in SendChoices :
          Apply(updateConnectionState(Cur, TRUE, d, outcome, c),
                [Op("connect", d, None, "gui") EXCEPT !.outcome = outcome])

\* The operator presses Disconnect (DevicesDialog._updateConnectionState(False, dev)).
DisconnectDevice(d) ==
    /\ modal = <<>>
    /\ Apply(updateConnectionState(Cur, FALSE, d, "ok", NoChoice),
             Op("disconnect", d, None, "gui"))

\* A caller sends one request: the operator selects an item of an active tab
\* (DeviceTab.showAccessible).
ShowAccessible(d) ==
    /\ modal = <<>>
    /\ tabs[d] = "active"
    /\ wait < MaxWait
    /\ \E c \in SendChoices :
          LET s == showAccessible(Cur, d, c)
          IN  Apply(s, [Op("request", d, None, "gui") EXCEPT
                           !.ret = s.ret,
                           !.outcome = IF requestOk(Cur, d, c) THEN "ok" ELSE "raise"])

\* The Refresh All action is triggered: it is connected to refreshAll of
\* every tab, in the order the tabs were added.
RECURSIVE refreshTabs(_, _, _)
refreshTabs(s, order, c) ==
    IF order = <<>>
    THEN s
    ELSE refreshTabs(refreshAll(s, Head(order), c), Tail(order), c)

RefreshAllTriggered ==
    /\ modal = <<>>
    /\ tabOrder # <<>>
    /\ \E c \in SendChoices :
          Apply(refreshTabs(Cur, tabOrder, c), Op("refreshAll", "all", None, "gui"))

\* The network-receive thread puts a message of the device on its queue.
Put(d, id) ==
    /\ Len(messages[d]) < MaxQueue
    /\ \E notify \in BOOLEAN :
          Apply(put(Cur, d, id, notify, NoChoice), Op("put", d, id, "net"))

\* The client meets an error: it keeps it for client.error() and puts the
\* error message id on the queue; a lost connection is closed.
ErrorArrives(d, kind) ==
    /\ clientUp[d]
    /\ Len(messages[d]) < MaxQueue
    /\ \E notify \in BOOLEAN :
          LET s == [Cur EXCEPT !.clientErr[d] = kind,
                               !.clientUp[d] = (kind # "lost")]
          IN  Apply(put(s, d, ERROR_MSG_ID, notify, NoChoice),
                    Op("error", d, ERROR_MSG_ID, "net"))

\* The event loop of the GUI thread (the main one, or the one of an open
\* message box) delivers the oldest posted notification.
Dispatch ==
    /\ events # <<>>
    /\ \E c \in Choices :
          LET e == Head(events)
              s == [Cur EXCEPT !.events = Tail(@)]
          IN  Apply(DeviceObject_responseReceived(s, e.dev, e.id, c),
                    Op("dispatch", e.dev, e.id, "gui"))

\* The operator closes the innermost message box and its handler goes on.
ModalClose ==
    /\ modal # <<>>
    /\ LET f == modal[Len(modal)]
           s == [Cur EXCEPT !.modal = SubSeq(@, 1, Len(@) - 1)]
       IN  \E close \in BOOLEAN :
              IF f.kind = "runError"
              THEN /\ close
                   /\ Apply(DevicesDialog_afterError(s, f.dev, NoChoice),
                            Op("closeError", f.dev, None, "gui"))
              ELSE IF f.kind = "runWarning"
              THEN /\ close
                   /\ Apply(s, Op("closeWarning", f.dev, None, "gui"))
              ELSE Apply(Explore_afterQuestion(s, f.dev, close, NoChoice),
                         [Op("closeQuestion", f.dev, None, "gui") EXCEPT
                             !.outcome = IF close THEN "close" ELSE "keep"])

Next ==
    \/ \E d \in Registered : ConnectDevice(d)
    \/ \E d \in Registered : DisconnectDevice(d)
    \/ \E d \in Registered : ShowAccessible(d)
    \/ RefreshAllTriggered
    \/ \E d \in Registered : \E id \in DEFAULT_MSG_ID..nextId[d] : Put(d, id)
    \/ \E d \in Registered : \E kind \in {"lost", "other"} : ErrorArrives(d, kind)
    \/ Dispatch
    \/ ModalClose

Spec == Init /\ [][Next]_vars

(***************************************************************************)
(* The message queue alone: a producer puts, the consumer pops and marks   *)
(* done, the event loop delivers the notifications.                        *)
(***************************************************************************)

\* The consumer pops the oldest item.
QueuePop(d) ==
    LET s == pop(Cur, d)
    IN  Apply([s EXCEPT !.raised = FALSE],
              [Op("pop", d, None, "gui") EXCEPT
                  !.ret = s.ret,
                  !.outcome = IF s.raised THEN "Empty" ELSE "ok"])

\* The consumer marks the tasks of an id, or with None all tasks, done.
QueueDone(d, id) == Apply(done(Cur, d, id), Op("done", d, id, "gui"))

NextQueue ==
    \/ \E d \in Registered : \E id \in DEFAULT_MSG_ID..MaxId : Put(d, id)
    \/ \E d \in Registered : QueuePop(d)
    \/ \E d \in Registered : \E id \in {None} \cup (DEFAULT_MSG_ID..MaxId) : QueueDone(d, id)
    \/ Dispatch

SpecQueue == Init /\ [][NextQueue]_vars

(***************************************************************************)
(* Errors of a connection with message boxes that may nest one deeper: the *)
(* event loop of an open box delivers the next error notification.         *)
(***************************************************************************)

NextNested ==
    \/ \E d \in Registered : ConnectDevice(d)
    \/ \E d \in Registered : DisconnectDevice(d)
    \/ \E d \in Registered : \E kind \in {"lost", "other"} : ErrorArrives(d, kind)
    \/ Dispatch
    \/ ModalClose

SpecNested == InitWith(OneDevice, MaxModal + 1) /\ [][NextNested]_vars

(***************************************************************************)
(* The configuration of devices: the operator adds, edits and removes      *)
(* devices in the devices dialog, and connects and disconnects them.       *)
(***************************************************************************)

\* What the operator may enter as name and as address ("same": the address
\* the edited device has).
EnteredNames == Names \cup {""}
EnteredAddresses == {"", "same", "other"}

\* The operator fills the Add dialog and presses OK; a rejected dialog is
\* cancelled afterwards.
AddDevice(name, address, connect) ==
    /\ modal = <<>>
    /\ address # "same"
    /\ IF DeviceConfigDialog_accept(Cur, "none", name, address)
       THEN \E new \in Free(Cur), c \in SendChoices :
               \E outcome \in IF connect THEN {"ok", "fail", "raise"} ELSE {"none"} :
                  Apply(DevicesDialog_addDevice(Cur, new, name, connect, outcome, c),
                        [Op("add", new, None, "gui") EXCEPT
                            !.name = name, !.outcome = "accepted"])
       ELSE Apply(Emit(Cur, "runError", "none", None),
                  [Op("add", "none", None, "gui") EXCEPT
                      !.name = name, !.outcome = "rejected"])

\* The operator edits a device of the list and presses OK.
EditDevice(d, name, address, connect) ==
    /\ modal = <<>>
    /\ d \notin errors
    /\ IF DeviceConfigDialog_accept(Cur, d, name, address)
       THEN \E new \in Free(Cur) \cup {d}, c \in SendChoices :
               LET s1 == editDeviceUpdate(Cur, d, new, name, address, c)
                   dev == IF registry[d] # name THEN new ELSE d
               IN  /\ registry[d] = name => new = d
                   /\ \E outcome \in IF connect THEN ConnectOutcomes(s1, dev)
                                                ELSE {"none"} :
                         Apply(DevicesDialog_editDevice(Cur, d, new, name, address,
                                                        connect, outcome, c),
                               [Op("edit", d, None, "gui") EXCEPT
                                   !.name = name, !.address = address,
                                   !.outcome = "accepted"])
       ELSE Apply(Emit(Cur, "runError", d, None),
                  [Op("edit", d, None, "gui") EXCEPT
                      !.name = name, !.outcome = "rejected"])

\* The operator removes a device of the list and confirms.
RemoveDevice(d) ==
    /\ modal = <<>>
    /\ d \notin errors
    /\ Apply(DevicesDialog_removeDevice(Cur, d, NoChoice),
             Op("remove", d, None, "gui"))

NextRegistry ==
    \/ \E name \in EnteredNames, address \in EnteredAddresses, connect \in BOOLEAN :
          AddDevice(name, address, connect)
    \/ \E d \in Registered, name \in EnteredNames, address \in EnteredAddresses,
          connect \in BOOLEAN : EditDevice(d, name, address, connect)
    \/ \E d \in Registered : RemoveDevice(d)
    \/ \E d \in Registered : ConnectDevice(d)
    \/ \E d \in Registered : DisconnectDevice(d)

SpecRegistry == Init /\ [][NextRegistry]_vars

\* The main window is closed (MainWindow.closeEvent calls unload); the
\* dialog and its devices stay as they are left.
CloseMainWindow ==
    /\ modal = <<>>
    /\ Apply(DevicesDialog_unload(Cur, Registered, NoChoice), Op("unload", "none", None, "gui"))

\* The devices dialog up to the closing of the main window.
NextUnload ==
    \/ NextRegistry
    \/ CloseMainWindow

SpecUnload == Init /\ [][NextUnload]_vars

(***************************************************************************)
(* Two configured devices with one Explore view: each device has a client  *)
(* and ids of its own, the view has one set reqIds.                        *)
(***************************************************************************)

TwoDevices == [d \in Devs |-> IF d = "d1" THEN "a" ELSE "b"]

NextTwo ==
    \/ \E d \in Registered : ConnectDevice(d)
    \/ \E d \in Registered : \E id \in DEFAULT_MSG_ID..nextId[d] : Put(d, id)
    \/ Dispatch

SpecTwo == InitWith(TwoDevices, MaxModal) /\ [][NextTwo]_vars

(***************************************************************************)
(* One test run: the runner thread and the GUI thread of the progress      *)
(* helper.                                                                 *)
(***************************************************************************)

NextProgress ==
    \/ \E n \in 0..MaxTests : Helper_start(n)
    \/ stopTest_acquire
    \/ stopTest_load
    \/ stopTest_store
    \/ stopTest_release
    \/ stopTest_emit
    \/ stop_setStopped
    \/ stop_test
    \/ update_acquire
    \/ update_load
    \/ update_store
    \/ update_release
    \/ update_test

SpecProgress == Init /\ [][NextProgress]_vars

(***************************************************************************)
(* Requests with a progress message whose timeout may fire before the      *)
(* response arrives.                                                       *)
(***************************************************************************)

\* The timer of a progress message fires and the event loop calls
\* ProgressDialog._handleTimeout.
ProgressTimeout(id) ==
    /\ id \in progressDict
    /\ Apply(ProgressDialog_handleTimeout(Cur, id), Op("timeout", "none", id, "gui"))

NextTimeout ==
    \/ \E d \in Registered : ConnectDevice(d)
    \/ RefreshAllTriggered
    \/ \E d \in Registered : \E id \in DEFAULT_MSG_ID..nextId[d] : Put(d, id)
    \/ Dispatch
    \/ \E id \in progressDict : ProgressTimeout(id)
    \/ ModalClose

SpecTimeout == Init /\ [][NextTimeout]_vars

(***************************************************************************)
(* A LastValues list: its uses add values and clear it                      *)
(***************************************************************************)

\* The lists a configuration may hold, with and without duplicates.
StoredLists == UNION {[1..n -> Values] : n \in 0..MaxStored}

InitLastValues ==
    /\ InitDevices(OneDevice, MaxModal)
    /\ tree = Tests_refresh([i \in Items |-> 0])
    /\ check = Check_init(NoCriteria)
    /\ \E stored \in StoredLists, max \in 1..MaxValues : lv = LastValues_init(stored, max)

Add(value) ==
    /\ lv' = LastValues_add(lv, value)
    /\ UNCHANGED <<devVars, helper, tree, check>>

Clear ==
    /\ lv' = LastValues_clear(lv)
    /\ UNCHANGED <<devVars, helper, tree, check>>

NextLastValues ==
    \/ \E value \in Values : Add(value)
    \/ Clear

SpecLastValues == InitLastValues /\ [][NextLastValues]_vars

(***************************************************************************)
(* The tests tree: the operator toggles and selects items                  *)
(***************************************************************************)

\* The trees of MaxItems items: the parent of an item is an item built
\* before it.
Trees == {parent \in [Items -> 0..MaxItems] : \A i \in Items : parent[i] < i}

InitTests ==
    /\ InitDevices(OneDevice, MaxModal)
    /\ lv = LastValues_init(<<>>, MaxValues)
    /\ check = Check_init(NoCriteria)
    /\ \E parent \in Trees : tree = Tests_refresh(parent)

Toggle(item) ==
    /\ tree' = toggle(tree, item)
    /\ UNCHANGED <<devVars, helper, lv, check>>

\* The operator clicks the name of an item, which becomes the current one.
Select(item) ==
    /\ tree' = [tree EXCEPT !.current = item, !.toggled = 0]
    /\ UNCHANGED <<devVars, helper, lv, check>>

NextTests ==
    \/ \E item \in Items : Toggle(item)
    \/ \E item \in Items : Select(item)

SpecTests == InitTests /\ [][NextTests]_vars

(***************************************************************************)
(* A Check object built from the criteria of the search dialog and called  *)
(* for the items of a search                                               *)
(***************************************************************************)

\* The strings of up to n characters.
Strings(n) == UNION {[1..k -> Chars] : k \in 0..n}

\* The criteria entered: short strings that are no regular expressions.
Criteria ==
    LET entered == {str \in Strings(MaxChars - 1) : str = <<>> \/ str[1] # "&"}
    IN  [name : entered, role : entered, state : entered, text : entered,
         caseSensitiveMatch : BOOLEAN]

\* The data of the accessibles.
ItemData ==
    [name : Strings(MaxChars), role : Strings(MaxChars - 1),
     states : UNION {[1..k -> {<<"a">>, <<"A">>}] : k \in 0..MaxStates},
     text : Strings(MaxChars - 1)]

InitCheck ==
    /\ InitDevices(OneDevice, MaxModal)
    /\ lv = LastValues_init(<<>>, MaxValues)
    /\ tree = Tests_refresh([i \in Items |-> 0])
    /\ \E criteria \in Criteria : check = Check_init(criteria)

\* _responseFind calls the Check object for the data of an accessible; one
\* call of each object is followed.
CallCheck(itemData) ==
    /\ ~check.called
    /\ check' = [check EXCEPT !.called = TRUE, !.item = itemData,
                              !.result = Check_call(check, itemData)]
    /\ UNCHANGED <<devVars, helper, lv, tree>>

NextCheck == \E itemData \in ItemData : CallCheck(itemData)

SpecCheck == InitCheck /\ [][NextCheck]_vars

(***************************************************************************)
(* The search: the buttons of the search dialog, the responses of the      *)
(* device and their dispatch                                               *)
(***************************************************************************)

\* The operator presses Search.
StartSearching(d) ==
    /\ modal = <<>>
    /\ tabs[d] = "active"
    /\ search[d].dialog = "idle"
    /\ search[d].started < MaxSearches
    /\ \E deep \in BOOLEAN, c \in {x \in Choices : x.status} :
          Apply(SearchDialog_startSearching(Cur, d, deep, c.count, c),
                Op("find", d, None, "gui"))

\* The operator presses Next.
NextSearching(d) ==
    /\ modal = <<>>
    /\ tabs[d] = "active"
    /\ search[d].dialog = "found"
    /\ search[d].started < MaxSearches
    /\ \E c \in SendChoices :
          Apply(SearchDialog_nextSearching(Cur, d, c), Op("findNext", d, None, "gui"))

\* The operator presses Stop.
StopSearching(d) ==
    /\ modal = <<>>
    /\ search[d].dialog = "searching"
    /\ Apply(SearchDialog_stopSearching(Cur, d), Op("stopSearching", d, None, "gui"))

NextSearch ==
    \/ \E d \in Registered : ConnectDevice(d)
    \/ \E d \in Registered : StartSearching(d)
    \/ \E d \in Registered : NextSearching(d)
    \/ \E d \in Registered : StopSearching(d)
    \/ \E d \in Registered : \E id \in DEFAULT_MSG_ID..nextId[d] : Put(d, id)
    \/ Dispatch

SpecSearch == Init /\ [][NextSearch]_vars

(***************************************************************************)
(* Properties                                                              *)
(***************************************************************************)

\* C1: connectDevice makes the device Connected and emits `connected` (once)
\* only when the underlying connect succeeds; when it reports failure or
\* raises, the device stays as it was and no `connected` is emitted, and a
\* raised ConnectionError reaches the caller, which shows it.  No other step
\* makes a Disconnected device Connected.
C1_connectStateMachine ==
    /\ lastOp.op = "connect" =>
          LET d == lastOp.dev
          IN  /\ lastOp.outcome = "ok" =>
                    connected[d] /\ NumSigId("connected", d, None) = 1
              /\ lastOp.outcome # "ok" =>
                    connected[d] = lastOp.was[d] /\ NumSig("connected") = 0
              /\ (lastOp.outcome = "raise") <=> (NumSig("runError") = 1)
    /\ \A d \in Devs :
          connected[d] /\ ~lastOp.was[d] =>
             lastOp.op = "connect" /\ lastOp.dev = d /\ lastOp.outcome = "ok"

\* A device that was connected, sent a request and was disconnected fails to
\* connect again with a ConnectionError.
C1_witness ==
    /\ lastOp.op = "connect"
    /\ lastOp.outcome = "raise"
    /\ ~connected[lastOp.dev]
    /\ nextId[lastOp.dev] > DEFAULT_MSG_ID

\* C2: every requestDevice call whose request function gives an id emits
\* `requestSent` exactly once with that id, in whatever step the call is
\* made, and the id is the one requestDevice returns.
C2_requestSentOnce ==
    /\ \A d \in Devs : \A id \in Ids :
          NumSigId("requestSent", d, id) =
             IF lastOp.next[d] < id /\ id <= nextId[d] THEN 1 ELSE 0
    /\ lastOp.op = "request" /\ lastOp.outcome = "ok" =>
          /\ lastOp.ret = nextId[lastOp.dev]
          /\ lastOp.ret = lastOp.next[lastOp.dev] + 1
          /\ NumSig("requestSent") = 1
          /\ NumSigId("requestSent", lastOp.dev, lastOp.ret) = 1

\* The second request of a connection is sent and its id returned.
C2_witness ==
    /\ lastOp.op = "request"
    /\ lastOp.outcome = "ok"
    /\ lastOp.ret = 2
    /\ NumSigId("requestSent", lastOp.dev, 2) = 1

\* C3: when the request function raises, requestDevice logs the error,
\* returns None, emits no `requestSent`, lets no exception out, and leaves
\* the connection state (and the ids given out) as they were.
C3_requestFailure ==
    lastOp.op = "request" /\ lastOp.outcome = "raise" =>
       /\ lastOp.ret = None
       /\ NumSig("log.exception") = 1
       /\ NumSig("requestSent") = 0
       /\ NumSig("DevicesDialog.requestSent") = 0
       /\ ~lastOp.raised
       /\ connected = lastOp.was
       /\ nextId = lastOp.next

\* A request on a device whose client has lost its connection, while the
\* device still counts as connected.
C3_witness ==
    /\ lastOp.op = "request"
    /\ lastOp.outcome = "raise"
    /\ connected[lastOp.dev]
    /\ ~clientUp[lastOp.dev]
    /\ lastOp.ret = None

\* C4: a dispatched notification of an id above DEFAULT_MSG_ID makes the
\* device emit `responseReceived` once, with that id, and no `errorOccurred`,
\* whether or not the device is connected.
C4_responseReceivedForId ==
    lastOp.op = "dispatch" /\ lastOp.id > DEFAULT_MSG_ID =>
       /\ NumSigId("responseReceived", lastOp.dev, lastOp.id) = 1
       /\ NumSig("responseReceived") = 1
       /\ NumSig("errorOccurred") = 0

\* The notification of the second request's response is dispatched.
C4_witness ==
    /\ lastOp.op = "dispatch"
    /\ lastOp.id = 2
    /\ 2 \in lastOp.reg
    /\ NumSigId("responseReceived", lastOp.dev, 2) = 1

\* C5: a dispatched notification of ERROR_MSG_ID emits `errorOccurred` (once)
\* exactly when the device is connected at that time; on a disconnected
\* device the error is logged only: no `errorOccurred`, no `disconnected`,
\* no message box, and the connection state stays.
C5_errorOnlyWhenConnected ==
    lastOp.op = "dispatch" /\ lastOp.id = ERROR_MSG_ID =>
       LET d == lastOp.dev
       IN  /\ NumSig("errorOccurred") = (IF lastOp.was[d] THEN 1 ELSE 0)
           /\ NumSig("responseReceived") = 0
           /\ ~lastOp.was[d] =>
                 /\ NumSig("log.warning") = 1
                 /\ NumSig("disconnected") = 0
                 /\ NumSig("DevicesDialog.disconnected") = 0
                 /\ NumSig("log.error") = 0
                 /\ connected = lastOp.was

\* An error notification is dispatched after the device was disconnected
\* with a request pending.
C5_witness ==
    /\ lastOp.op = "dispatch"
    /\ lastOp.id = ERROR_MSG_ID
    /\ ~lastOp.was[lastOp.dev]
    /\ dropped[lastOp.dev] # {}
    /\ NumSig("log.warning") = 1

\* C6: the notification of an id the view has registered makes the view call
\* getResponse for it once and unregister it; a notification of an id that
\* is not (or no longer) registered fetches nothing; no response id is
\* fetched more than once.
C6_fetchedAtMostOnce ==
    /\ lastOp.op = "dispatch" /\ lastOp.id > DEFAULT_MSG_ID =>
          IF lastOp.id \in lastOp.reg
          THEN /\ NumSigId("getResponse", lastOp.dev, lastOp.id) = 1
               /\ NumSig("getResponse") = 1
               /\ lastOp.id \notin reqIds
          ELSE NumSig("getResponse") = 0
    /\ \A d \in Devs : \A id \in Ids : fetchCount[d][id] <= 1

\* A second notification of an id whose response was fetched already, with
\* another message of that id waiting in the queue.
C6_witness ==
    /\ lastOp.op = "dispatch"
    /\ lastOp.id > DEFAULT_MSG_ID
    /\ lastOp.id \notin lastOp.reg
    /\ fetchCount[lastOp.dev][lastOp.id] = 1
    /\ \E i \in 1..Len(messages[lastOp.dev]) : messages[lastOp.dev][i] = lastOp.id
    /\ NumSig("getResponse") = 0

\* C7: when the connection of a connected device is lost with two requests
\* pending, the device becomes Disconnected with `disconnected` emitted
\* once, and afterwards `responseReceived` is never emitted for either of
\* the two ids, whatever notifications were awaiting dispatch.
C7_noResponseAfterLoss ==
    /\ lastOp.op = "closeError" /\ lastOp.was[lastOp.dev] =>
          ~connected[lastOp.dev] /\ NumSig("disconnected") = 1
    /\ lastOp.op = "dispatch" /\ lastOp.id > DEFAULT_MSG_ID =>
          LET d == lastOp.dev
          IN  lostConn[d] /\ ~connected[d] /\ Cardinality(dropped[d]) = 2
                 /\ lastOp.id \in dropped[d]
              => NumSigId("responseReceived", d, lastOp.id) = 0

\* C8: while a device stays disconnected, none of the ids that were pending
\* at the disconnect is registered in the view's reqIds or in the tab's
\* handler map, and no handler is invoked for any of them.
C8_pendingReleased ==
    \A d \in Devs :
       ~connected[d] =>
          /\ dropped[d] \cap reqIds = {}
          /\ dropped[d] \cap Pending(d) = {}
          /\ \A id \in dropped[d] : NumSigId("handler", d, id) = 0

\* C9: every id accepted by put is dispatched exactly once: each put posts
\* one notification of its id behind those awaiting dispatch, each of which
\* the event loop delivers once.
C9_everyPutDispatched ==
    lastOp.thread = "net" =>
       events = Append(lastOp.posted, [dev |-> lastOp.dev, id |-> lastOp.id])

\* C10: a put of the network-receive thread runs no handler, and the event
\* loop never delivers a notification of a device while a handler of that
\* device has not returned.
C10_handlersNeverNested ==
    /\ lastOp.thread = "net" => emitted = <<>>
    /\ lastOp.op = "dispatch" => lastOp.depth = 0

C12_notEmptyOnPut ==
    lastOp.op = "put" /\ lastOp.queued = <<>> =>
       /\ Len(events) = Len(lastOp.posted) + 1
       /\ SubSeq(events, 1, Len(lastOp.posted)) = lastOp.posted
       /\ events[Len(events)].dev = lastOp.dev
       /\ \E i \in 1..Len(messages[lastOp.dev]) :
             messages[lastOp.dev][i] = events[Len(events)].id

\* A put on a queue emptied by a pop, with an earlier notification still
\* awaiting dispatch.
C12_witness ==
    /\ lastOp.op = "put"
    /\ lastOp.queued = <<>>
    /\ Len(lastOp.posted) = 1
    /\ Len(events) = 2
    /\ events[2].id = lastOp.id

\* C13: done(id) on a queue holding no task of the id emits allDone(id)
\* exactly once; done() without an id emits allDone exactly once, with -1;
\* also on a queue that never held an item.
C13_allDoneOnce ==
    lastOp.op = "done" =>
       LET d == lastOp.dev
           id == lastOp.id
       IN  /\ id = None =>
                 NumSig("allDone") = 1 /\ NumSigId("allDone", d, -1) = 1
           /\ (id # None /\ ~\E i \in 1..Len(lastOp.queued) : lastOp.queued[i] = id) =>
                 NumSig("allDone") = 1 /\ NumSigId("allDone", d, id) = 1

\* done() without an id on a queue that never held an item.
C13_witness ==
    /\ lastOp.op = "done"
    /\ lastOp.id = None
    /\ lastOp.queued = <<>>
    /\ nextId[lastOp.dev] = DEFAULT_MSG_ID
    /\ NumSigId("allDone", lastOp.dev, -1) = 1

\* C14: a connectDevice on a device that is Connected already leaves it
\* Connected, emits `connected` at most once more and repeats no other side
\* effect of connecting: the Explore view has exactly one tab of the device,
\* and no request is sent and no handler or progress entry added for it.
C14_connectTwice ==
    lastOp.op = "connect" /\ lastOp.was[lastOp.dev] /\ lastOp.outcome = "ok" =>
       LET d == lastOp.dev
       IN  /\ connected[d]
           /\ NumSig("connected") <= 1
           /\ tabs[d] = "active"
           /\ Count(tabOrder, LAMBDA x : x = d) = 1
           /\ NumSig("requestSent") = 0
           /\ nextId = lastOp.next

\* C15: a disconnectDevice on a Connected device makes it Disconnected and
\* emits `disconnected` exactly once; on a device that is Disconnected
\* already (its client has no open connection, so the underlying disconnect
\* reports that nothing was done) no signal is emitted and the device stays
\* Disconnected.
C15_disconnectStateMachine ==
    lastOp.op \in {"disconnect", "closeError"} =>
       LET d == lastOp.dev
       IN  /\ ~connected[d]
           /\ \A e \in Devs \ {d} : connected[e] = lastOp.was[e]
           /\ lastOp.was[d] =>
                 /\ NumSigId("disconnected", d, None) = 1
                 /\ NumSig("disconnected") = 1
                 /\ NumSig("DevicesDialog.disconnected") = 1
           /\ ~lastOp.was[d] =>
                 /\ NumSig("disconnected") = 0
                 /\ NumSig("DevicesDialog.disconnected") = 0

\* The operator disconnects a device that was connected before, sent a
\* request, and is Disconnected already.
C15_witness ==
    /\ lastOp.op = "disconnect"
    /\ ~lastOp.was[lastOp.dev]
    /\ nextId[lastOp.dev] > DEFAULT_MSG_ID
    /\ ~connected[lastOp.dev]
    /\ NumSig("disconnected") = 0

\* C16: on errorOccurred the dialog disconnects the device only for a
\* ConnectionLostError (after its message box), and the `disconnected` it
\* then forwards carries error = TRUE; for another error the device stays
\* Connected and no `disconnected` is emitted; every `disconnected` of a
\* disconnect that no ConnectionLostError caused carries error = FALSE.
C16_errorFlag ==
    /\ lastOp.op = "dispatch" /\ lastOp.id = ERROR_MSG_ID /\ lastOp.was[lastOp.dev] =>
          /\ connected[lastOp.dev]
          /\ NumSig("disconnected") = 0
          /\ Count(modal, LAMBDA f : f.kind = "runError" /\ f.dev = lastOp.dev) =
                lastOp.depth + (IF clientErr[lastOp.dev] = "lost" THEN 1 ELSE 0)
    /\ lastOp.op = "closeError" /\ lastOp.was[lastOp.dev] =>
          /\ ~connected[lastOp.dev]
          /\ \A i \in 1..Len(emitted) :
                emitted[i].sig = "DevicesDialog.disconnected" => emitted[i].error
    /\ lastOp.op # "closeError" =>
          \A i \in 1..Len(emitted) :
             emitted[i].sig = "DevicesDialog.disconnected" => ~emitted[i].error

\* C17: after Explore has handled `connected` the device has exactly one
\* tab, and it is active; after it has handled `disconnected` the tab is
\* removed (error not set, or the operator closes it) or inactive (error set
\* and the operator keeps it); an active tab belongs to a Disconnected device
\* only while the question of that device's disconnect awaits its answer.
C17_tabFollowsConnection ==
    /\ lastOp.op = "connect" /\ lastOp.outcome = "ok" =>
          /\ tabs[lastOp.dev] = "active"
          /\ Count(tabOrder, LAMBDA x : x = lastOp.dev) = 1
    /\ \A i \in 1..Len(emitted) :
          emitted[i].sig = "DevicesDialog.disconnected" /\ ~emitted[i].error =>
             tabs[emitted[i].dev] = "none"
    /\ lastOp.op = "closeQuestion" =>
          tabs[lastOp.dev] = (IF lastOp.outcome = "close" THEN "none" ELSE "inactive")
    /\ \A d \in Devs :
          /\ tabs[d] = "none" <=> Count(tabOrder, LAMBDA x : x = d) = 0
          /\ Count(tabOrder, LAMBDA x : x = d) <= 1
          /\ tabs[d] = "active" /\ ~connected[d] =>
                \E i \in 1..Len(modal) :
                   modal[i].kind = "runQuestion" /\ modal[i].dev = d

\* The operator keeps the tab of a device disconnected by an error: the tab
\* is inactive.
C17_witness ==
    /\ lastOp.op = "closeQuestion"
    /\ lastOp.outcome = "keep"
    /\ tabs[lastOp.dev] = "inactive"
    /\ ~connected[lastOp.dev]
    /\ lostConn[lastOp.dev]

\* C17 as stated: after `connected` one active tab, after `disconnected` the
\* tab removed or inactive, and no active tab ever belongs to a device that
\* is Disconnected.
C17_activeTabNeverDisconnected ==
    /\ lastOp.op = "connect" /\ lastOp.outcome = "ok" =>
          /\ tabs[lastOp.dev] = "active"
          /\ Count(tabOrder, LAMBDA x : x = lastOp.dev) = 1
    /\ lastOp.op = "closeQuestion" =>
          tabs[lastOp.dev] = (IF lastOp.outcome = "close" THEN "none" ELSE "inactive")
    /\ \A d \in Devs : tabs[d] = "active" => connected[d]

C19_uniqueNames ==
    /\ \A d \in Registered : \A e \in Registered :
          d # e => registry[d] # registry[e]
    /\ lastOp.op \in {"add", "edit"}
          /\ (\E e \in Devs \ {lastOp.dev} : lastOp.names[e] = lastOp.name) =>
             /\ lastOp.outcome = "rejected"
             /\ NumSig("runError") = 1
             /\ Len(emitted) = 1
             /\ registry = lastOp.names
             /\ connected = lastOp.was
             /\ nextId = lastOp.next

\* The operator renames a connected device to the name another device
\* holds.
C19_witness ==
    /\ lastOp.op = "edit"
    /\ lastOp.outcome = "rejected"
    /\ lastOp.name \in Names
    /\ lastOp.names[lastOp.dev] # lastOp.name
    /\ \E e \in Devs \ {lastOp.dev} : lastOp.names[e] = lastOp.name
    /\ connected[lastOp.dev]
    /\ Cardinality(Registered) = 2

\* C20: the response with id N of device X is processed by the handler
\* registered for N on X's tab and by no other, and consumes that
\* registration only: where another device has a request with the same id N
\* outstanding on its tab, the view stays responsible for it, so that its
\* own response will be fetched and handled.
C20_responsePerDevice ==
    lastOp.op = "dispatch" /\ lastOp.id > DEFAULT_MSG_ID /\ lastOp.id \in lastOp.reg =>
       /\ \A i \in 1..Len(emitted) :
             emitted[i].sig = "handler" =>
                emitted[i].dev = lastOp.dev /\ emitted[i].id = lastOp.id
       /\ \A i \in 1..Len(emitted) :
             emitted[i].sig \in {"getResponse", "fetched"} => emitted[i].dev = lastOp.dev
       /\ \A d \in Devs \ {lastOp.dev} :
             reqMap[d][lastOp.id] # "none" => lastOp.id \in reqIds

\* C21: in a step that calls DeviceTab.process for a response id, a handler
\* registered for the id is invoked exactly once, and its registration and
\* its progress entry are removed (process returns True); for an id without
\* a registration process returns False, invokes no handler and leaves the
\* tab's maps, the progress dialog, the wait counter and the ids given out
\* as they were.
C21_processOnce ==
    [][LET d == lastOp'.dev
           id == lastOp'.id
           called == Count(emitted', LAMBDA e : e.sig \in {"process.True", "process.False"})
       IN  (lastOp'.op = "dispatch" /\ id > DEFAULT_MSG_ID /\ called > 0) =>
              /\ called = 1
              /\ IF reqMap[d][id] # "none"
                 THEN /\ Count(emitted', LAMBDA e : e.sig = "process.True"
                                                    /\ e.dev = d /\ e.id = id) = 1
                      /\ Count(emitted', LAMBDA e : e.sig = "handler") = 1
                      /\ Count(emitted', LAMBDA e : e.sig = "handler"
                                                    /\ e.dev = d /\ e.id = id) = 1
                      /\ reqMap'[d][id] = "none"
                      /\ progressMap'[d][id] = None
                      /\ progressMap[d][id] # None =>
                            progressMap[d][id] \notin progressDict'
                 ELSE /\ Count(emitted', LAMBDA e : e.sig = "process.False"
                                                    /\ e.dev = d /\ e.id = id) = 1
                      /\ Count(emitted', LAMBDA e : e.sig = "handler") = 0
                      /\ reqMap' = reqMap
                      /\ progressMap' = progressMap
                      /\ progressDict' = progressDict
                      /\ progressId' = progressId
                      /\ wait' = wait
                      /\ tabs' = tabs
                      /\ nextId' = nextId
      ]_vars

\* process is called for an id the view still holds from an earlier
\* connection, while the new tab has a handler for another id only.
C21_witness ==
    /\ lastOp.op = "dispatch"
    /\ NumSigId("process.False", lastOp.dev, lastOp.id) = 1
    /\ Pending(lastOp.dev) # {}
    /\ connected[lastOp.dev]

\* C22: a send that failed (requestDevice returned None) creates no pending
\* state: in every step, each id that enters the view's reqIds or a tab's
\* handler map, and each entry that enters a tab's progress map, belongs to
\* a request that was sent in the step, and the progress dialog gains at
\* most one message per request sent; a step whose sends all failed leaves
\* reqIds, the maps and the progress dialog without any new entry.
C22_failedSendNotPending ==
    [][LET sent(d, id) == Count(emitted', LAMBDA e : e.sig = "requestSent"
                                                  /\ e.dev = d /\ e.id = id) > 0
           nsent == Count(emitted', LAMBDA e : e.sig = "requestSent")
       IN  /\ \A id \in reqIds' \ reqIds : \E d \in Devs : sent(d, id)
           /\ \A d \in Devs : \A id \in Ids :
                 /\ (reqMap'[d][id] # "none" /\ reqMap'[d][id] # reqMap[d][id]) => sent(d, id)
                 /\ (progressMap'[d][id] # None /\ progressMap'[d][id] # progressMap[d][id])
                       => sent(d, id)
           /\ Cardinality(progressDict' \ progressDict) <= nsent
           /\ progressId' - progressId <= nsent
           /\ (lastOp'.op = "request" /\ lastOp'.outcome = "raise") =>
                 /\ lastOp'.ret = None
                 /\ reqIds' = reqIds
                 /\ reqMap' = reqMap
                 /\ progressMap' = progressMap
                 /\ progressDict' = progressDict
      ]_vars

\* A send fails while another request of the tab is pending.
C22_witness ==
    /\ lastOp.op = "request"
    /\ lastOp.outcome = "raise"
    /\ lastOp.ret = None
    /\ Pending(lastOp.dev) # {}
    /\ NumSig("log.exception") = 1

\* C23: in a test run the progress helper emits `stopped` exactly once, and
\* only after stop() was called and every stoppedTest that stopTest issued
\* was taken up by _update: never twice, never while a notification awaits
\* the event loop, and once the runner has returned from stop and every
\* notification is handled it has been emitted.
C23_stoppedOnce ==
    /\ helper.emits <= 1
    /\ helper.emits > 0 => helper.stopCalled /\ helper.left = 0 /\ helper.posted = 0
    /\ (helper.rpc = "done" /\ helper.posted = 0 /\ helper.gpc = "idle") =>
          helper.emits = 1

\* C24: when the timeout of a request's progress message fires, the message
\* leaves the progress dialog and the request stays pending (the view's
\* reqIds, the tab's handler and progress maps, the queue are untouched); the
\* notification of its response, dispatched later, runs its handler exactly
\* once and removes the registration, and the closing of the progress entry
\* that is gone changes nothing in the dialog; after every step the dialog is
\* visible exactly when it holds a message.
C24_timeoutKeepsRequest ==
    [][/\ lastOp'.op = "timeout" =>
             /\ lastOp'.id \in progressDict
             /\ progressDict' = progressDict \ {lastOp'.id}
             /\ reqMap' = reqMap
             /\ reqIds' = reqIds
             /\ progressMap' = progressMap
             /\ messages' = messages
       /\ LET d == lastOp'.dev
              id == lastOp'.id
          IN  (/\ lastOp'.op = "dispatch"
               /\ id \in reqIds
               /\ reqMap[d][id] # "none"
               /\ progressMap[d][id] # None
               /\ progressMap[d][id] \notin progressDict) =>
                 /\ Count(emitted', LAMBDA e : e.sig = "handler") = 1
                 /\ Count(emitted', LAMBDA e : e.sig = "handler"
                                               /\ e.dev = d /\ e.id = id) = 1
                 /\ reqMap'[d][id] = "none"
                 /\ id \notin reqIds'
                 /\ progressMap'[d][id] = None
                 /\ progressDict' = progressDict
                 /\ progressVisible' = progressVisible
       /\ progressVisible' <=> (progressDict' # {})
      ]_vars

\* The response of the only request is handled while the warning of its
\* timeout is still open: the dialog holds no message and is hidden.
C24_witness ==
    /\ lastOp.op = "dispatch"
    /\ NumSigId("handler", lastOp.dev, lastOp.id) = 1
    /\ progressId = 0
    /\ progressDict = {}
    /\ ~progressVisible
    /\ \E i \in 1..Len(modal) : modal[i].kind = "runWarning"

\* C25: the wait counter of the Explore view is balanced with the requests
\* that called setWait: when no request of any tab is outstanding (each was
\* answered or failed to be sent) the counter is zero, and while a request
\* sent by showAccessible, which called setWait, is outstanding the counter
\* is above zero (the cursor is not restored).
C25_waitBalanced ==
    /\ (modal = <<>> /\ \A d \in Devs : Pending(d) = {}) => wait = 0
    /\ \A d \in Devs : \A id \in Ids : reqMap[d][id] = "Refresh" => wait > 0

\* The device answers every request that waits for its response and the
\* event loop delivers every posted event.
SpecSearchFair ==
    /\ SpecSearch
    /\ WF_vars(Dispatch)
    /\ \A d \in Devs : \A id \in 1..MaxId :
          WF_vars(reqMap[d][id] # "none" /\ Put(d, id))

\* C26: every search started with find or findNext on an active tab ends
\* with exactly one of itemFound, itemNotFound and searchingStopped, after
\* which both manual flags are cleared, and at most one search request is
\* outstanding at any time.
C26_searchEnds ==
    /\ [](\A d \in Devs :
            /\ Cardinality({id \in Ids : reqMap[d][id] = "Find"}) <= 1
            /\ search[d].ended <= search[d].started
            /\ search[d].ended = search[d].started =>
                  ~search[d].manualExpand /\ ~search[d].manualSelect)
    /\ \A d \in Devs : \A n \in 1..MaxSearches :
          (search[d].started = n) ~> (search[d].ended >= n)

\* C27: a device that is removed, renamed or given another address through
\* the devices dialog is disconnected before the change takes effect: where
\* it was Connected it emits `disconnected` once, before any `connected` of
\* the step; a device that is in no registry is never Connected; closing the
\* main window leaves every registered device Disconnected.
C27_disconnectedBeforeChange ==
    /\ \A d \in Devs : registry[d] = NoName => ~connected[d] /\ ~clientUp[d]
    /\ lastOp.op = "remove" =>
          /\ ~connected[lastOp.dev]
          /\ lastOp.was[lastOp.dev] => NumSigId("disconnected", lastOp.dev, None) = 1
    /\ lastOp.op = "edit" /\ lastOp.outcome = "accepted"
          /\ (lastOp.names[lastOp.dev] # lastOp.name \/ lastOp.address # "same")
          /\ lastOp.was[lastOp.dev] =>
             /\ NumSigId("disconnected", lastOp.dev, None) = 1
             /\ \E i \in 1..Len(emitted) :
                   /\ emitted[i].sig = "disconnected" /\ emitted[i].dev = lastOp.dev
                   /\ \A j \in 1..(i - 1) : emitted[j].sig # "connected"
    /\ lastOp.op = "unload" =>
          /\ \A d \in Registered : ~connected[d] /\ ~clientUp[d]
          /\ \A d \in Registered :
                lastOp.was[d] => NumSigId("disconnected", d, None) = 1

\* A connected device is renamed and connected again under its new name.
C27_witness ==
    /\ lastOp.op = "edit" /\ lastOp.outcome = "accepted"
    /\ lastOp.names[lastOp.dev] # lastOp.name
    /\ lastOp.was[lastOp.dev]
    /\ NumSigId("disconnected", lastOp.dev, None) = 1
    /\ NumSig("connected") = 1

\* C28: after any adds and clears on a LastValues list that started without
\* duplicates the list holds at most max values and no value twice, after
\* an add the added value is first, and the configuration store holds the
\* same list.
C28_lastValues ==
    lv.started =>
       /\ Len(lv.values) <= lv.max
       /\ NoDuplicates(lv.values)
       /\ lv.op = "add" => lv.values # <<>> /\ Head(lv.values) = lv.arg
       /\ lv.store = lv.values

\* A value was added and is the first of a list that is full.
C28_witness ==
    /\ lv.op = "add"
    /\ lv.started
    /\ lv.max = MaxValues
    /\ Len(lv.values) = lv.max
    /\ Head(lv.values) = lv.arg

\* C29: after the operator toggled an item of the tests tree every ancestor
\* of the item is Checked iff all its children are Checked, Unchecked iff
\* all its children are Unchecked and PartiallyChecked otherwise, and every
\* item below the toggled one has its state.
C29_checkboxes ==
    tree.toggled # 0 =>
       /\ \A a \in ancestors(tree, tree.toggled) :
             LET states == {tree.state[i] : i \in children(tree, a)}
             IN  /\ tree.state[a] = "Checked" <=> states = {"Checked"}
                 /\ tree.state[a] = "Unchecked" <=> states = {"Unchecked"}
                 /\ tree.state[a] = "PartiallyChecked" <=>
                       states # {"Checked"} /\ states # {"Unchecked"}
       /\ \A i \in Items :
             tree.toggled \in ancestors(tree, i) => tree.state[i] = tree.state[tree.toggled]

\* An item is unchecked below a parent and a grandparent that become
\* PartiallyChecked.
C29_witness ==
    /\ tree.toggled # 0
    /\ Cardinality(ancestors(tree, tree.toggled)) = 2
    /\ \A a \in ancestors(tree, tree.toggled) : tree.state[a] = "PartiallyChecked"
    /\ tree.state[tree.toggled] = "Unchecked"

\* C30: with partial, case-insensitive matching and criteria that are no
\* regular expressions Check accepts an item iff every criterion that is not
\* empty is, whatever the case of the letters, a part of the item's name,
\* role and text and, for the state, of at least one of the item's states.
C30_partialMatch ==
    check.called /\ ~check.caseSensitiveMatch =>
       LET within(criterion, str) ==
               criterion = <<>> \/ strFind(upper(str), upper(criterion)) >= 0
           c == check.criteria
       IN  check.result <=>
              /\ within(c.name, check.item.name)
              /\ within(c.role, check.item.role)
              /\ within(c.text, check.item.text)
              /\ c.state = <<>> \/ \E i \in 1..Len(check.item.states) :
                                     within(c.state, check.item.states[i])
====
